---- MODULE Spec2Model ----
(***************************************************************************)
(* Model of src/create_neo4j.py: class UGVKnowledgeGraph.                  *)
(*                                                                         *)
(* The program keeps no state of its own; its state is the property graph  *)
(* held by the graph engine.  The model's state is that graph (nodes with  *)
(* their internal id, label and properties; edges with their type, end     *)
(* nodes and properties), the uniqueness constraints in force, and the     *)
(* last call with its arguments and its return value.                      *)
(*                                                                         *)
(* Every statement the program sends is evaluated by the Cypher rules the  *)
(* statement text relies on:                                               *)
(*   - MATCH (n:Label {key: v}) yields one row per node with that label    *)
(*     and property value; two MATCH clauses yield the cross product;      *)
(*   - CREATE runs once per row;                                           *)
(*   - an aggregate (sum, count, collect) skips null; sum of nothing is 0; *)
(*   - the non-aggregate expressions of a RETURN are its grouping key; an  *)
(*     aggregation with a grouping key over no rows returns no rows, one   *)
(*     without a grouping key returns one row;                             *)
(*   - OPTIONAL MATCH keeps a row with nulls when nothing matches, and     *)
(*     otherwise yields one row per match;                                 *)
(*   - a map literal whose values are null is itself not null.             *)
(* The engine is taken to accept each statement text (it runs the          *)
(* statement as written); it rejects a CREATE that would break a           *)
(* uniqueness constraint in force, may reject schema statements, and in    *)
(* SpecModule may fail any one statement of a create_module call.          *)
(***************************************************************************)
EXTENDS Integers, Sequences, FiniteSets, Bags

(***************************************************************************)
(* Values.  Null stands for Cypher null / Python None in a string field,   *)
(* NullNum in a numeric field.                                             *)
(***************************************************************************)
Null == "<null>"
NullNum == 0 - 1

UGV_MODULE == "UGV_Module"
BASE_CHASSIS == "Base_Chassis"
INTERFACE_SPEC == "Interface_Spec"
MISSION_PROFILE == "Mission_Profile"
CONSTRAINT == "Constraint"

HAS_INTERFACE == "HAS_INTERFACE"
MOUNTED_ON == "MOUNTED_ON"
CONSTRAINED_BY == "CONSTRAINED_BY"
PART_OF_MISSION == "PART_OF_MISSION"
COMPATIBLE_WITH == "COMPATIBLE_WITH"
CONFLICTS_WITH == "CONFLICTS_WITH"

VARIABLES nodes, edges, uniq, last

vars == <<nodes, edges, uniq, last>>

(***************************************************************************)
(* The call record kept in last.                                           *)
(***************************************************************************)
Call(op, args, raised, ret) ==
    [op |-> op, args |-> args, raised |-> raised, ret |-> ret]

NoCall == Call("none", <<>>, FALSE, 0)

(***************************************************************************)
(* A node: its label, the business id (module_id, chassis_id, mission_id,  *)
(* constraint_id or interface_id, by label) and the properties the         *)
(* queries read.  The internal id of nodes[i] is i.                        *)
(***************************************************************************)
Node(label, bid, name, type, power, mass) ==
    [label |-> label, bid |-> bid, name |-> name, type |-> type,
     power |-> power, mass |-> mass]

(***************************************************************************)
(* An edge: its type, the internal ids of its end nodes and its            *)
(* properties.  Edges have no identity the program reads, so the edges of  *)
(* the graph are a bag.                                                    *)
(***************************************************************************)
Edge(type, src, dst, slot, pos, reason) ==
    [type |-> type, src |-> src, dst |-> dst, slot |-> slot, pos |-> pos,
     reason |-> reason]

RECURSIVE SumOver(_, _)
SumOver(S, f) ==
    IF S = {} THEN 0
    ELSE LET x == CHOOSE y \in S : TRUE IN f[x] + SumOver(S \ {x}, f)

(***************************************************************************)
(* MATCH (n:label {<id key>: bid}): the internal ids of the matching nodes.*)
(***************************************************************************)
MatchNodesAnyLabel(label, bid) ==
    {i \in 1..Len(nodes) : nodes[i].bid = bid}

MatchNodes(label, bid) ==
    {i \in 1..Len(nodes) : nodes[i].label = label /\ nodes[i].bid = bid}

(***************************************************************************)
(* _create_node: CREATE (n:label {props}) RETURN id(n).  The engine        *)
(* rejects the statement (the driver raises) when the label has a          *)
(* uniqueness constraint in force and a node of that label already has the *)
(* business id.                                                            *)
(***************************************************************************)
CreateNodeRaises(ns, n) ==
    /\ n.label \in uniq
    /\ \E i \in 1..Len(ns) : ns[i].label = n.label /\ ns[i].bid = n.bid

_create_node(ns, n) ==
    IF CreateNodeRaises(ns, n)
    THEN [raised |-> TRUE, nodes |-> ns, node_id |-> 0]
    ELSE [raised |-> FALSE, nodes |-> Append(ns, n), node_id |-> Len(ns) + 1]

(***************************************************************************)
(* _create_relationship: MATCH both end nodes by label and internal id,    *)
(* CREATE one edge per row, return whether a row came back.                *)
(***************************************************************************)
MatchById(ns, label, id) ==
    {i \in 1..Len(ns) : ns[i].label = label /\ i = id}

_create_relationship(ns, es, from_label, from_id, rel_type, to_label, to_id) ==
    LET rows == MatchById(ns, from_label, from_id) \X MatchById(ns, to_label, to_id)
        new == [e \in {Edge(rel_type, r[1], r[2], Null, Null, Null) : r \in rows} |-> 1]
    IN  [edges |-> es (+) new, ret |-> rows # {}]

(***************************************************************************)
(* f"{module_id}_{kind}": the interface id create_module derives.          *)
(***************************************************************************)
Kinds == <<"mechanical", "electrical", "thermal">>

InterfaceId(module_id, kind) ==
    CASE module_id = "M1" /\ kind = "mechanical" -> "M1_mechanical"
      [] module_id = "M1" /\ kind = "electrical" -> "M1_electrical"
      [] module_id = "M1" /\ kind = "thermal" -> "M1_thermal"
      [] module_id = "M2" /\ kind = "mechanical" -> "M2_mechanical"
      [] module_id = "M2" /\ kind = "electrical" -> "M2_electrical"
      [] module_id = "M2" /\ kind = "thermal" -> "M2_thermal"
      [] module_id = "M3" /\ kind = "mechanical" -> "M3_mechanical"
      [] module_id = "M3" /\ kind = "electrical" -> "M3_electrical"
      [] module_id = "M3" /\ kind = "thermal" -> "M3_thermal"
      [] module_id = "module_optical_cam_001" /\ kind = "mechanical"
           -> "module_optical_cam_001_mechanical"
      [] module_id = "module_optical_cam_001" /\ kind = "electrical"
           -> "module_optical_cam_001_electrical"
      [] module_id = "module_optical_cam_001" /\ kind = "thermal"
           -> "module_optical_cam_001_thermal"
      [] module_id = "module_arm_eod_001" /\ kind = "mechanical"
           -> "module_arm_eod_001_mechanical"
      [] module_id = "module_arm_eod_001" /\ kind = "electrical"
           -> "module_arm_eod_001_electrical"
      [] module_id = "module_arm_eod_001" /\ kind = "thermal"
           -> "module_arm_eod_001_thermal"
      [] module_id = "module_battery_extended_001" /\ kind = "mechanical"
           -> "module_battery_extended_001_mechanical"
      [] module_id = "module_battery_extended_001" /\ kind = "electrical"
           -> "module_battery_extended_001_electrical"
      [] module_id = "module_battery_extended_001" /\ kind = "thermal"
           -> "module_battery_extended_001_thermal"
      [] module_id = "" /\ kind = "mechanical" -> "_mechanical"
      [] module_id = "" /\ kind = "electrical" -> "_electrical"
      [] module_id = "" /\ kind = "thermal" -> "_thermal"

(***************************************************************************)
(* create_interface_spec: one Interface_Spec node; of the flattened        *)
(* properties the model keeps elec_power_draw_w (NullNum when the spec is  *)
(* not an electrical one).                                                 *)
(***************************************************************************)
InterfaceSpecNode(interface_id, interface_type, elec_power) ==
    Node(INTERFACE_SPEC, interface_id, Null, interface_type, elec_power, NullNum)

create_interface_spec(interface_id, interface_type, elec_power) ==
    /\ LET r == _create_node(nodes, InterfaceSpecNode(interface_id, interface_type, elec_power))
       IN  /\ nodes' = r.nodes
           /\ last' = Call("create_interface_spec", [id |-> interface_id], r.raised, r.node_id)
    /\ UNCHANGED <<edges, uniq>>

(***************************************************************************)
(* create_module: the UGV_Module node, then for each interface given, in   *)
(* the order mechanical, electrical, thermal, the Interface_Spec node and  *)
(* the HAS_INTERFACE edge.  Each statement is its own transaction: when    *)
(* one raises, what the earlier ones created stays, and the error leaves   *)
(* create_module.                                                          *)
(* elec is the electrical interface's power_draw_w, NullNum for no         *)
(* electrical interface; mech and therm tell whether that interface is     *)
(* given.  fault is the number, among the statements the call sends, of    *)
(* the one the engine fails (0 for none): a failed statement changes       *)
(* nothing and raises.                                                     *)
(***************************************************************************)
ModuleNode(module_id, module_type, mass, elec) ==
    Node(UGV_MODULE, module_id, Null, module_type, elec, mass)

IfacesGiven(mech, elec, therm) ==
    SelectSeq(Kinds, LAMBDA k : \/ k = "mechanical" /\ mech
                                \/ k = "electrical" /\ elec # NullNum
                                \/ k = "thermal" /\ therm)

EngineFails(fault, statement) == fault = statement

(* _create_node as the statement-th statement of the call.                 *)
CreateNodeAt(ns, n, fault, statement) ==
    IF EngineFails(fault, statement)
    THEN [raised |-> TRUE, nodes |-> ns, node_id |-> 0]
    ELSE _create_node(ns, n)

(* sent: the number of statements the call has sent so far.                *)
RECURSIVE CreateInterfaces(_, _, _, _, _, _, _, _)
CreateInterfaces(ns, es, module_id, node_id, kinds, elec, fault, sent) ==
    IF kinds = <<>> THEN [raised |-> FALSE, nodes |-> ns, edges |-> es]
    ELSE LET k == Head(kinds)
             c == CreateNodeAt(ns, InterfaceSpecNode(InterfaceId(module_id, k), k,
                                       IF k = "electrical" THEN elec ELSE NullNum),
                               fault, sent + 1)
             r == _create_relationship(c.nodes, es, UGV_MODULE, node_id,
                                       HAS_INTERFACE, INTERFACE_SPEC, c.node_id)
         IN  IF c.raised THEN [raised |-> TRUE, nodes |-> ns, edges |-> es]
             ELSE IF EngineFails(fault, sent + 2)
                  THEN [raised |-> TRUE, nodes |-> c.nodes, edges |-> es]
                  ELSE CreateInterfaces(c.nodes, r.edges, module_id, node_id,
                                        Tail(kinds), elec, fault, sent + 2)

CreateModuleRollback(ns, es, module_id, module_type, mass, mech, elec, therm, fault) ==
    LET c == CreateNodeAt(ns, ModuleNode(module_id, module_type, mass, elec), fault, 1)
        i == CreateInterfaces(c.nodes, es, module_id, c.node_id,
                              IfacesGiven(mech, elec, therm), elec, fault, 1)
    IN  IF c.raised \/ i.raised
        THEN [raised |-> TRUE, nodes |-> ns, edges |-> es, node_id |-> 0]
        ELSE [raised |-> FALSE, nodes |-> i.nodes, edges |-> i.edges,
              node_id |-> c.node_id]

CreateModule(ns, es, module_id, module_type, mass, mech, elec, therm, fault) ==
    LET c == CreateNodeAt(ns, ModuleNode(module_id, module_type, mass, elec), fault, 1)
        i == CreateInterfaces(c.nodes, es, module_id, c.node_id,
                              IfacesGiven(mech, elec, therm), elec, fault, 1)
    IN  IF c.raised THEN [raised |-> TRUE, nodes |-> ns, edges |-> es, node_id |-> 0]
        ELSE [raised |-> i.raised, nodes |-> i.nodes, edges |-> i.edges,
              node_id |-> c.node_id]

create_module(module_id, module_type, mass, mech, elec, therm, fault) ==
    /\ LET r == CreateModule(nodes, edges, module_id, module_type, mass, mech, elec,
                             therm, fault)
       IN  /\ nodes' = r.nodes
           /\ edges' = r.edges
           /\ last' = Call("create_module",
                           [id |-> module_id, mech |-> mech, elec |-> elec,
                            therm |-> therm, fault |-> fault],
                           r.raised, r.node_id)
    /\ UNCHANGED uniq

(***************************************************************************)
(* create_base_chassis, create_mission_profile, create_constraint: one     *)
(* node each.                                                              *)
(***************************************************************************)
create_base_chassis(chassis_id, mass) ==
    /\ LET r == _create_node(nodes, Node(BASE_CHASSIS, chassis_id, Null, Null, NullNum, mass))
       IN  /\ nodes' = r.nodes
           /\ last' = Call("create_base_chassis", [id |-> chassis_id], r.raised, r.node_id)
    /\ UNCHANGED <<edges, uniq>>

create_mission_profile(mission_id, mission_name, mission_type) ==
    /\ LET r == _create_node(nodes, Node(MISSION_PROFILE, mission_id, mission_name,
                                         mission_type, NullNum, NullNum))
       IN  /\ nodes' = r.nodes
           /\ last' = Call("create_mission_profile", [id |-> mission_id], r.raised, r.node_id)
    /\ UNCHANGED <<edges, uniq>>

create_constraint(constraint_id, constraint_type) ==
    /\ LET r == _create_node(nodes, Node(CONSTRAINT, constraint_id, Null, constraint_type,
                                         NullNum, NullNum))
       IN  /\ nodes' = r.nodes
           /\ last' = Call("create_constraint", [id |-> constraint_id], r.raised, r.node_id)
    /\ UNCHANGED <<edges, uniq>>

(***************************************************************************)
(* The relationship operations.  Each sends one statement                  *)
(*   MATCH (a:A {id: $a}) MATCH (b:B {id: $b}) CREATE (a)-[r:T {..}]->(b)  *)
(*   RETURN r                                                              *)
(* and returns len(result) > 0: one edge is created, and one row returned, *)
(* for every pair of a matching first node and a matching second node.     *)
(***************************************************************************)
RelRows(from_label, from_bid, to_label, to_bid) ==
    MatchNodes(from_label, from_bid) \X MatchNodes(to_label, to_bid)

RelCreate(rows, rel_type, slot, pos, reason) ==
    edges (+) SetToBag({Edge(rel_type, r[1], r[2], slot, pos, reason) : r \in rows})

RelArgs(a, b, slot, pos, reason) ==
    [a |-> a, b |-> b, slot |-> slot, pos |-> pos, reason |-> reason]

mount_module_on_chassis(module_id, chassis_id, slot_name, position) ==
    LET rows == RelRows(UGV_MODULE, module_id, BASE_CHASSIS, chassis_id)
    IN  /\ edges' = RelCreate(rows, MOUNTED_ON, slot_name, position, Null)
        /\ last' = Call("mount_module_on_chassis",
                        RelArgs(module_id, chassis_id, slot_name, position, Null),
                        FALSE, Cardinality(rows) > 0)
        /\ UNCHANGED <<nodes, uniq>>

add_module_to_mission(module_id, mission_id) ==
    LET rows == RelRows(UGV_MODULE, module_id, MISSION_PROFILE, mission_id)
    IN  /\ edges' = RelCreate(rows, PART_OF_MISSION, Null, Null, Null)
        /\ last' = Call("add_module_to_mission",
                        RelArgs(module_id, mission_id, Null, Null, Null),
                        FALSE, Cardinality(rows) > 0)
        /\ UNCHANGED <<nodes, uniq>>

add_constraint_to_module(module_id, constraint_id) ==
    LET rows == RelRows(UGV_MODULE, module_id, CONSTRAINT, constraint_id)
    IN  /\ edges' = RelCreate(rows, CONSTRAINED_BY, Null, Null, Null)
        /\ last' = Call("add_constraint_to_module",
                        RelArgs(module_id, constraint_id, Null, Null, Null),
                        FALSE, Cardinality(rows) > 0)
        /\ UNCHANGED <<nodes, uniq>>

mark_compatible(module_id_1, module_id_2) ==
    LET rows == RelRows(UGV_MODULE, module_id_1, UGV_MODULE, module_id_2)
    IN  /\ edges' = RelCreate(rows, COMPATIBLE_WITH, Null, Null, Null)
        /\ last' = Call("mark_compatible",
                        RelArgs(module_id_1, module_id_2, Null, Null, Null),
                        FALSE, Cardinality(rows) > 0)
        /\ UNCHANGED <<nodes, uniq>>

mark_conflict(module_id_1, module_id_2, reason) ==
    LET rows == RelRows(UGV_MODULE, module_id_1, UGV_MODULE, module_id_2)
    IN  /\ edges' = RelCreate(rows, CONFLICTS_WITH, Null, Null, reason)
        /\ last' = Call("mark_conflict",
                        RelArgs(module_id_1, module_id_2, Null, Null, reason),
                        FALSE, Cardinality(rows) > 0)
        /\ UNCHANGED <<nodes, uniq>>

(***************************************************************************)
(* Decimal numbers (kW) are exact fractions num/den with den > 0.          *)
(***************************************************************************)
Frac(num, den) == [num |-> num, den |-> den]

FracLe(x, y) == x.num * y.den <= y.num * x.den

FracSub(x, y) == Frac(x.num * y.den - y.num * x.den, x.den * y.den)

(***************************************************************************)
(* validate_mission_power_budget.                                          *)
(*   MATCH (m:UGV_Module)-[:PART_OF_MISSION]->(mission:Mission_Profile     *)
(*         {mission_id: $mission_id})                                      *)
(* yields one row per PART_OF_MISSION edge; the rows are grouped by        *)
(* mission.mission_name, and each group gives sum(m.power_draw_w),         *)
(* count(m) and collect(m.module_id).  The code reads result[0]; the       *)
(* engine fixes no order among the groups.                                 *)
(***************************************************************************)
PartOfMissionEdges(mission_id) ==
    {e \in BagToSet(edges) :
        /\ e.type = PART_OF_MISSION
        /\ nodes[e.src].label = UGV_MODULE
        /\ nodes[e.dst].label = MISSION_PROFILE
        /\ nodes[e.dst].bid = mission_id}

PowerOrZero(power) == IF power = NullNum THEN 0 ELSE power

PowerRow(mission_id, mission_name) ==
    LET es == {e \in PartOfMissionEdges(mission_id) : nodes[e.dst].name = mission_name}
        ids == {nodes[e.src].bid : e \in es}
    IN  [mission_name |-> mission_name,
         total_power_w |->
             SumOver(es, [e \in es |-> CopiesIn(e, edges) * PowerOrZero(nodes[e.src].power)]),
         num_modules |-> SumOver(es, [e \in es |-> CopiesIn(e, edges)]),
         module_ids |->
             [b \in ids |-> LET bs == {e \in es : nodes[e.src].bid = b}
                            IN  SumOver(bs, [e \in bs |-> CopiesIn(e, edges)])]]

PowerRowsUngrouped(mission_id) ==
    IF PartOfMissionEdges(mission_id) = {}
    THEN {[mission_name |-> Null, total_power_w |-> 0, num_modules |-> 0,
           module_ids |-> EmptyBag]}
    ELSE {PowerRow(mission_id, n) :
             n \in {nodes[e.dst].name : e \in PartOfMissionEdges(mission_id)}}

PowerRows(mission_id) ==
    {PowerRow(mission_id, n) : n \in {nodes[e.dst].name : e \in PartOfMissionEdges(mission_id)}}

WithinBudgetStrict(total_power_kw, budget_kw) ==
    total_power_kw.num * budget_kw.den < budget_kw.num * total_power_kw.den

WithinBudget(total_power_kw, budget_kw) == FracLe(total_power_kw, budget_kw)

PowerResult(row, budget_kw) ==
    LET total_power_kw == Frac(row.total_power_w, 1000)
    IN  [mission_name |-> row.mission_name,
         total_power_w |-> row.total_power_w,
         total_power_kw |-> total_power_kw,
         budget_kw |-> budget_kw,
         num_modules |-> row.num_modules,
         within_budget |-> WithinBudget(total_power_kw, budget_kw),
         margin_kw |-> FracSub(budget_kw, total_power_kw),
         module_ids |-> row.module_ids]

NoModulesResult == [status |-> "invalid", reason |-> "No modules found for mission"]

ValidatePowerResults(mission_id, budget_kw) ==
    IF PowerRows(mission_id) = {} THEN {NoModulesResult}
    ELSE {PowerResult(row, budget_kw) : row \in PowerRows(mission_id)}

validate_mission_power_budget(mission_id, budget_kw) ==
    /\ \E ret \in ValidatePowerResults(mission_id, budget_kw) :
          last' = Call("validate_mission_power_budget",
                       [mission_id |-> mission_id, budget_kw |-> budget_kw], FALSE, ret)
    /\ UNCHANGED <<nodes, edges, uniq>>

(***************************************************************************)
(* get_mission_compatibility.                                              *)
(*   MATCH (m1:UGV_Module)-[:PART_OF_MISSION]->(mission {mission_id})      *)
(*   WITH collect(m1) AS modules                                           *)
(* collects one entry per PART_OF_MISSION edge.  The two UNWINDs pair      *)
(* every entry with every entry, id(m1) < id(m2) keeps the pairs in        *)
(* ascending internal id, and each OPTIONAL MATCH keeps the row once when  *)
(* no edge m1 -> m2 of its type exists and once per such edge otherwise.   *)
(* The rows form a bag: the engine fixes no order.                         *)
(***************************************************************************)
Max(x, y) == IF x >= y THEN x ELSE y

(* collect(m1): how many times node i occurs in modules.                   *)
CollectedCount(mission_id, i) ==
    LET es == {e \in PartOfMissionEdges(mission_id) : e.src = i}
    IN  SumOver(es, [e \in es |-> CopiesIn(e, edges)])

EdgesFromTo(type, a, b) ==
    {e \in BagToSet(edges) : e.type = type /\ e.src = a /\ e.dst = b}

CountFromTo(type, a, b) ==
    LET es == EdgesFromTo(type, a, b)
    IN  SumOver(es, [e \in es |-> CopiesIn(e, edges)])

Relationship(conf_found, compat_found) ==
    IF conf_found THEN "CONFLICT"
    ELSE IF compat_found THEN "COMPATIBLE"
    ELSE "UNKNOWN"

CompatRow(a, b, conf_found, reason) ==
    [module_1 |-> nodes[a].bid,
     module_2 |-> nodes[b].bid,
     relationship |-> Relationship(conf_found, CountFromTo(COMPATIBLE_WITH, a, b) > 0),
     conflict_reason |-> reason]

(* The rows of one pair a, b, each with the number of times it comes back. *)
PairEntries(mission_id, a, b) ==
    LET n == CollectedCount(mission_id, a) * CollectedCount(mission_id, b)
                 * Max(1, CountFromTo(COMPATIBLE_WITH, a, b))
        confs == EdgesFromTo(CONFLICTS_WITH, a, b)
    IN  IF confs = {}
        THEN {[row |-> CompatRow(a, b, FALSE, Null), n |-> n]}
        ELSE {[row |-> CompatRow(a, b, TRUE, c.reason), n |-> n * CopiesIn(c, edges)] :
                 c \in confs}

PairOrder(a, b) == a < b

CompatEntries(mission_id) ==
    UNION {PairEntries(mission_id, p[1], p[2]) :
              p \in {q \in (1..Len(nodes)) \X (1..Len(nodes)) :
                        /\ CollectedCount(mission_id, q[1]) > 0
                        /\ CollectedCount(mission_id, q[2]) > 0
                        /\ PairOrder(q[1], q[2])}}

CompatRows(mission_id) ==
    LET entries == CompatEntries(mission_id)
    IN  [r \in {x.row : x \in entries} |->
            LET xs == {x \in entries : x.row = r} IN SumOver(xs, [x \in xs |-> x.n])]

RowsWith(rows, relationship) ==
    [r \in {x \in DOMAIN rows : x.relationship = relationship} |-> rows[r]]

MissionViableNoUnknown(conflicts, unknown) ==
    BagCardinality(conflicts) = 0 /\ unknown = 0

MissionViable(conflicts, unknown) == BagCardinality(conflicts) = 0

CompatResult(rows) ==
    [total_pairs |-> BagCardinality(rows),
     conflicts |-> RowsWith(rows, "CONFLICT"),
     compatible_confirmed |-> RowsWith(rows, "COMPATIBLE"),
     unknown |-> BagCardinality(RowsWith(rows, "UNKNOWN")),
     mission_viable |-> MissionViable(RowsWith(rows, "CONFLICT"),
                                      BagCardinality(RowsWith(rows, "UNKNOWN")))]

get_mission_compatibility(mission_id) ==
    /\ last' = Call("get_mission_compatibility", [mission_id |-> mission_id], FALSE,
                    CompatResult(CompatRows(mission_id)))
    /\ UNCHANGED <<nodes, edges, uniq>>

(***************************************************************************)
(* get_mission_manifest.                                                   *)
(*   MATCH (mission:Mission_Profile {mission_id: $mission_id})             *)
(*   OPTIONAL MATCH (m:UGV_Module)-[:PART_OF_MISSION]->(mission)           *)
(*   OPTIONAL MATCH (m)-[:CONSTRAINED_BY]->(c:Constraint)                  *)
(* The rows are grouped by the mission's name and type (and duration,      *)
(* which the model leaves out); the code reads result[0].  A mission node  *)
(* without linked module keeps one row in which m and c are null.  The     *)
(* outer collect takes one map per mission node and PART_OF_MISSION edge,  *)
(* its constraints being the distinct constraint ids of that module; the   *)
(* map of the row in which m is null has null values and is collected      *)
(* like any other map.                                                     *)
(***************************************************************************)
ConstraintIdsOf(m) ==
    {nodes[e.dst].bid : e \in {x \in BagToSet(edges) :
                                  /\ x.type = CONSTRAINED_BY
                                  /\ x.src = m
                                  /\ nodes[x.dst].label = CONSTRAINT}}

ManifestEntry(m) ==
    [module_id |-> nodes[m].bid,
     type |-> nodes[m].type,
     mass_kg |-> nodes[m].mass,
     power_w |-> nodes[m].power,
     constraints |-> ConstraintIdsOf(m)]

NullEntry ==
    [module_id |-> Null, type |-> Null, mass_kg |-> NullNum, power_w |-> NullNum,
     constraints |-> {}]

PartOfEdgesInto(mission) ==
    {e \in BagToSet(edges) :
        /\ e.type = PART_OF_MISSION
        /\ e.dst = mission
        /\ nodes[e.src].label = UGV_MODULE}

(* The maps one mission node contributes, each with its number of copies.  *)
MissionEntries(mission) ==
    IF PartOfEdgesInto(mission) = {}
    THEN {[entry |-> NullEntry, n |-> 1]}
    ELSE {[entry |-> ManifestEntry(e.src), n |-> CopiesIn(e, edges)] :
             e \in PartOfEdgesInto(mission)}

ManifestModules(missions) ==
    LET items == UNION {{[mission |-> x, item |-> y] : y \in MissionEntries(x)} :
                           x \in missions}
    IN  [en \in {x.item.entry : x \in items} |->
            LET ys == {x \in items : x.item.entry = en}
            IN  SumOver(ys, [y \in ys |-> y.item.n])]

(* if m["mass_kg"] / if m["power_w"]: None and 0 are left out of the sum.  *)
Truthy(v) == v # NullNum /\ v # 0

ManifestResult(missions) ==
    LET x == CHOOSE y \in missions : TRUE
        modules == ManifestModules(missions)
        ms == DOMAIN modules
        total_mass == SumOver(ms, [en \in ms |->
                          IF Truthy(en.mass_kg) THEN modules[en] * en.mass_kg ELSE 0])
        total_power == SumOver(ms, [en \in ms |->
                          IF Truthy(en.power_w) THEN modules[en] * en.power_w ELSE 0])
    IN  [mission_name |-> nodes[x].name,
         mission_type |-> nodes[x].type,
         total_mass_kg |-> total_mass,
         total_power_w |-> total_power,
         total_power_kw |-> Frac(total_power, 1000),
         num_modules |-> BagCardinality(modules),
         modules |-> modules]

NotFoundResult == [status |-> "not_found"]

(* The groups of the RETURN: the matching mission nodes by name and type.  *)
ManifestGroups(mission_id) ==
    {{y \in MatchNodes(MISSION_PROFILE, mission_id) :
         nodes[y].name = nodes[x].name /\ nodes[y].type = nodes[x].type} :
        x \in MatchNodes(MISSION_PROFILE, mission_id)}

ManifestResults(mission_id) ==
    IF ManifestGroups(mission_id) = {} THEN {NotFoundResult}
    ELSE {ManifestResult(g) : g \in ManifestGroups(mission_id)}

get_mission_manifest(mission_id) ==
    /\ \E ret \in ManifestResults(mission_id) :
          last' = Call("get_mission_manifest", [mission_id |-> mission_id], FALSE, ret)
    /\ UNCHANGED <<nodes, edges, uniq>>

(***************************************************************************)
(* find_module_dependencies.                                               *)
(*   MATCH (m:UGV_Module {module_id: $module_id})                          *)
(*   OPTIONAL MATCH (m)-[:MOUNTED_ON]->(chassis:Base_Chassis)              *)
(*   OPTIONAL MATCH (m)-[:PART_OF_MISSION]->(mission:Mission_Profile)      *)
(*   OPTIONAL MATCH (m)-[:HAS_INTERFACE]->(iface:Interface_Spec)           *)
(*   OPTIONAL MATCH (m)-[:CONFLICTS_WITH]->(m2:UGV_Module)                 *)
(*   OPTIONAL MATCH (m)-[:COMPATIBLE_WITH]->(m3:UGV_Module)                *)
(* The rows of a module node are the product of its matches, a clause      *)
(* without match contributing null.  The RETURN groups the rows by         *)
(* m.module_id, m.module_type, m.power_draw_w and chassis.chassis_id and   *)
(* collects the distinct non-null mission names, interface types and       *)
(* module ids of each group (lists without a fixed order: sets here).  The *)
(* code reads result[0]; the engine fixes no order among the groups.  The  *)
(* result has the eight keys below and no other.                           *)
(***************************************************************************)
OutNeighbours(m, rel_type, label) ==
    {e.dst : e \in {x \in BagToSet(edges) :
                       x.type = rel_type /\ x.src = m /\ nodes[x.dst].label = label}}

(* chassis.chassis_id over the rows of module node m.                      *)
MountedOnValuesKeepNull(m) ==
    {nodes[c].bid : c \in OutNeighbours(m, MOUNTED_ON, BASE_CHASSIS)} \cup {Null}

MountedOnValues(m) ==
    IF OutNeighbours(m, MOUNTED_ON, BASE_CHASSIS) = {} THEN {Null}
    ELSE {nodes[c].bid : c \in OutNeighbours(m, MOUNTED_ON, BASE_CHASSIS)}

DepsKey(m, mounted_on) ==
    [module |-> nodes[m].bid, type |-> nodes[m].type, power_w |-> nodes[m].power,
     mounted_on |-> mounted_on]

DepsKeys(module_id) ==
    UNION {{DepsKey(m, c) : c \in MountedOnValues(m)} : m \in MatchNodes(UGV_MODULE, module_id)}

(* collect(DISTINCT <property>) over the rows of a group.                  *)
CollectDistinct(ms, rel_type, label, prop) ==
    {v \in UNION {{prop[n] : n \in OutNeighbours(m, rel_type, label)} : m \in ms} :
        v # Null}

DepsResult(module_id, key) ==
    LET ms == {m \in MatchNodes(UGV_MODULE, module_id) :
                  \E c \in MountedOnValues(m) : DepsKey(m, c) = key}
    IN  [module_id |-> key.module,
         module_type |-> key.type,
         power_w |-> key.power_w,
         mounted_on |-> key.mounted_on,
         missions |-> CollectDistinct(ms, PART_OF_MISSION, MISSION_PROFILE,
                                      [n \in 1..Len(nodes) |-> nodes[n].name]),
         interfaces |-> CollectDistinct(ms, HAS_INTERFACE, INTERFACE_SPEC,
                                        [n \in 1..Len(nodes) |-> nodes[n].type]),
         conflicts |-> CollectDistinct(ms, CONFLICTS_WITH, UGV_MODULE,
                                       [n \in 1..Len(nodes) |-> nodes[n].bid]),
         compatible_with |-> CollectDistinct(ms, COMPATIBLE_WITH, UGV_MODULE,
                                             [n \in 1..Len(nodes) |-> nodes[n].bid])]

FindDependenciesResultsUngrouped(module_id) ==
    IF DepsKeys(module_id) = {}
    THEN {[module_id |-> Null, module_type |-> Null, power_w |-> NullNum,
           mounted_on |-> Null, missions |-> {}, interfaces |-> {}, conflicts |-> {},
           compatible_with |-> {}]}
    ELSE {DepsResult(module_id, key) : key \in DepsKeys(module_id)}

FindDependenciesResults(module_id) ==
    IF DepsKeys(module_id) = {} THEN {NotFoundResult}
    ELSE {DepsResult(module_id, key) : key \in DepsKeys(module_id)}

find_module_dependencies(module_id) ==
    /\ \E ret \in FindDependenciesResults(module_id) :
          last' = Call("find_module_dependencies", [module_id |-> module_id], FALSE, ret)
    /\ UNCHANGED <<nodes, edges, uniq>>

(***************************************************************************)
(* setup_schema: four uniqueness-constraint statements (module_id,         *)
(* interface_id, mission_id, chassis_id), then four index statements, each *)
(* sent in its own try block: an error of the engine on a statement is     *)
(* caught and printed, and the loop goes on.  A constraint comes into      *)
(* force when the engine accepts its statement; the engine cannot accept   *)
(* it while two nodes of the label share the id, and may reject any        *)
(* statement on other grounds.  Indexes do not change what the operations  *)
(* return.                                                                 *)
(***************************************************************************)
SchemaConstraints ==
    <<[name |-> "module_id_unique", label |-> UGV_MODULE],
      [name |-> "interface_id_unique", label |-> INTERFACE_SPEC],
      [name |-> "mission_id_unique", label |-> MISSION_PROFILE],
      [name |-> "chassis_id_unique", label |-> BASE_CHASSIS]>>

SchemaIndexes ==
    <<[name |-> "module_type", label |-> UGV_MODULE],
      [name |-> "module_status", label |-> UGV_MODULE],
      [name |-> "mission_type", label |-> MISSION_PROFILE],
      [name |-> "power_draw", label |-> UGV_MODULE]>>

StatementNames ==
    {SchemaConstraints[i].name : i \in 1..Len(SchemaConstraints)}
        \cup {SchemaIndexes[i].name : i \in 1..Len(SchemaIndexes)}

ConstraintLabels == {SchemaConstraints[i].label : i \in 1..Len(SchemaConstraints)}

CanConstrain(label) ==
    \/ label \in uniq
    \/ \A i, j \in 1..Len(nodes) :
          (nodes[i].label = label /\ nodes[j].label = label /\ nodes[i].bid = nodes[j].bid)
              => i = j

(* for statement in statements: try: _execute_query(statement)             *)
(*                              except Exception: print(...)               *)
(* The statements sent, in order, and whether an error left the loop.      *)
RECURSIVE RunStatementsAbort(_, _)
RunStatementsAbort(statements, rejected) ==
    IF statements = <<>> THEN [submitted |-> <<>>, raised |-> FALSE]
    ELSE LET rest == RunStatementsAbort(Tail(statements), rejected)
         IN  IF Head(statements).name \in rejected
             THEN [submitted |-> <<Head(statements).name>>, raised |-> TRUE]
             ELSE [submitted |-> <<Head(statements).name>> \o rest.submitted,
                   raised |-> rest.raised]

RECURSIVE RunStatements(_, _)
RunStatements(statements, rejected) ==
    IF statements = <<>> THEN [submitted |-> <<>>, raised |-> FALSE]
    ELSE LET rest == RunStatements(Tail(statements), rejected)
         IN  IF Head(statements).name \in rejected
             THEN [submitted |-> <<Head(statements).name>> \o rest.submitted,
                   raised |-> rest.raised]
             ELSE [submitted |-> <<Head(statements).name>> \o rest.submitted,
                   raised |-> rest.raised]

SetupSchema(rejected) ==
    LET c == RunStatements(SchemaConstraints, rejected)
        i == IF c.raised THEN [submitted |-> <<>>, raised |-> TRUE]
             ELSE RunStatements(SchemaIndexes, rejected)
        submitted == c.submitted \o i.submitted
    IN  [submitted |-> submitted,
         raised |-> i.raised,
         accepted |-> {SchemaConstraints[k].label :
                          k \in {n \in 1..Len(SchemaConstraints) :
                                    /\ n <= Len(c.submitted)
                                    /\ SchemaConstraints[n].name \notin rejected}}]

(* The constraint statements the engine cannot accept in this graph.       *)
MustReject ==
    {SchemaConstraints[k].name :
        k \in {n \in 1..Len(SchemaConstraints) : ~CanConstrain(SchemaConstraints[n].label)}}

(* engine_rejects: the statements the engine rejects on other grounds.     *)
setup_schema(engine_rejects) ==
    /\ LET rejected == engine_rejects \cup MustReject
           r == SetupSchema(rejected)
       IN  /\ uniq' = uniq \cup r.accepted
           /\ last' = Call("setup_schema",
                           [accepted |-> r.accepted, rejected |-> rejected,
                            submitted |-> r.submitted],
                           r.raised, Null)
    /\ UNCHANGED <<nodes, edges>>

(***************************************************************************)
(* The state after construction: an empty graph, no constraint, no call.   *)
(***************************************************************************)
Init ==
    /\ nodes = <<>>
    /\ edges = EmptyBag
    /\ uniq = {}
    /\ last = NoCall

(***************************************************************************)
(* The specifications below bound the graph: a step is taken only when the *)
(* graph it leads to has at most max_nodes nodes and max_edges edges.      *)
(***************************************************************************)
Bounded(max_nodes, max_edges) ==
    /\ Len(nodes') <= max_nodes
    /\ BagCardinality(edges') <= max_edges

(***************************************************************************)
(* SpecPower: modules, missions, mission membership and the power-budget   *)
(* validation.                                                             *)
(***************************************************************************)
PwMaxNodes == 5
PwMaxEdges == 4

PwModules == {<<"M1", 120>>, <<"M2", 600>>, <<"M1", NullNum>>}
PwModuleIds == {"M1", "M2"}
PwMissionNames == {"Recon", "EOD"}
PwQueryIds == {"MX", "MY"}
PwBudgets == {Frac(0, 1), Frac(12, 100), Frac(72, 100), Frac(35, 10)}

PwCreateModule ==
    \E m \in PwModules :
        /\ create_module(m[1], "Sensing_Module", 2, FALSE, m[2], FALSE, 0)
        /\ Bounded(PwMaxNodes, PwMaxEdges)

PwCreateMission ==
    \E name \in PwMissionNames :
        /\ create_mission_profile("MX", name, "reconnaissance")
        /\ Bounded(PwMaxNodes, PwMaxEdges)

PwAddModuleToMission ==
    \E m \in PwModuleIds, x \in PwQueryIds :
        /\ add_module_to_mission(m, x)
        /\ Bounded(PwMaxNodes, PwMaxEdges)

PwValidate ==
    \E x \in PwQueryIds, b \in PwBudgets : validate_mission_power_budget(x, b)

NextPower == PwCreateModule \/ PwCreateMission \/ PwAddModuleToMission \/ PwValidate

SpecPower == Init /\ [][NextPower]_vars

(***************************************************************************)
(* Properties of validate_mission_power_budget.                            *)
(***************************************************************************)
IsPowerCall == last.op = "validate_mission_power_budget"

IsPowerTotals == IsPowerCall /\ "total_power_w" \in DOMAIN last.ret

(* The module nodes with at least one PART_OF_MISSION edge to a mission    *)
(* node of the given id and name.                                          *)
ModulesLinkedTo(mission_id, mission_name) ==
    {i \in 1..Len(nodes) :
        /\ nodes[i].label = UGV_MODULE
        /\ \E e \in BagToSet(edges) :
              /\ e.type = PART_OF_MISSION
              /\ e.src = i
              /\ nodes[e.dst].label = MISSION_PROFILE
              /\ nodes[e.dst].bid = mission_id
              /\ nodes[e.dst].name = mission_name}

HasLinkedModule(mission_id) ==
    \E e \in BagToSet(edges) :
        /\ e.type = PART_OF_MISSION
        /\ nodes[e.src].label = UGV_MODULE
        /\ nodes[e.dst].label = MISSION_PROFILE
        /\ nodes[e.dst].bid = mission_id

(* No two nodes of one label share a business id.                          *)
BusinessIdsUnique ==
    \A i, j \in 1..Len(nodes) :
        (nodes[i].label = nodes[j].label /\ nodes[i].bid = nodes[j].bid) => i = j

(* C1: for a mission with a linked module, total_power_w is the sum of     *)
(* power_draw_w over the modules linked to the mission, each linked module *)
(* counted once and a module without electrical interface counted as 0     *)
(* (stated here for the graphs in which every business id is unique).      *)
C1_TotalIsSumOverModules ==
    (IsPowerTotals /\ BusinessIdsUnique) =>
        LET ms == ModulesLinkedTo(last.args.mission_id, last.ret.mission_name)
        IN  last.ret.total_power_w =
                SumOver(ms, [i \in ms |-> IF nodes[i].power = NullNum THEN 0
                                          ELSE nodes[i].power])

(* C2: within_budget = (total_power_kw <= budget_kw), true at equality;    *)
(* margin_kw = budget_kw - total_power_kw; margin_kw >= 0 exactly when     *)
(* within_budget; total_power_kw is total_power_w / 1000.                  *)
C2_WithinBudgetAndMargin ==
    IsPowerTotals =>
        LET r == last.ret
            t == r.total_power_kw
            b == r.budget_kw
            m == r.margin_kw
        IN  /\ b = last.args.budget_kw
            /\ t.den > 0 /\ b.den > 0 /\ m.den > 0
            /\ t.num * 1000 = r.total_power_w * t.den
            /\ r.within_budget <=> (t.num * b.den <= b.num * t.den)
            /\ (t.num * b.den = b.num * t.den) => r.within_budget
            /\ m.den = b.den * t.den /\ m.num = b.num * t.den - t.num * b.den
            /\ (m.num >= 0) <=> r.within_budget

C2_Witness ==
    /\ IsPowerTotals
    /\ last.ret.total_power_w > 0
    /\ last.ret.total_power_kw.num * last.ret.budget_kw.den
           = last.ret.budget_kw.num * last.ret.total_power_kw.den
    /\ last.ret.within_budget
    /\ last.ret.margin_kw.num = 0

(* C3: for a mission id with no module linked by PART_OF_MISSION the       *)
(* result is {status: "invalid", reason: "No modules found for mission"},  *)
(* never one with within_budget.                                           *)
C3_NoModulesIsInvalid ==
    (IsPowerCall /\ ~HasLinkedModule(last.args.mission_id)) =>
        /\ DOMAIN last.ret = {"status", "reason"}
        /\ last.ret.status = "invalid"
        /\ last.ret.reason = "No modules found for mission"

C3_Witness ==
    /\ IsPowerCall
    /\ \E i \in 1..Len(nodes) :
          nodes[i].label = MISSION_PROFILE /\ nodes[i].bid = last.args.mission_id
    /\ \E i \in 1..Len(nodes) : nodes[i].label = UGV_MODULE
    /\ ~HasLinkedModule(last.args.mission_id)
    /\ last.ret.status = "invalid"

(***************************************************************************)
(* SpecCompat: modules, a mission, membership, compatibility and conflict  *)
(* marks, and the pairwise compatibility analysis.                         *)
(***************************************************************************)
CpMaxNodes == 4
CpMaxEdges == 4

CpModuleIds == {"M1", "M2"}

CpCreateModule ==
    \E id \in CpModuleIds :
        /\ create_module(id, "Sensing_Module", 2, FALSE, NullNum, FALSE, 0)
        /\ Bounded(CpMaxNodes, CpMaxEdges)

CpCreateMission ==
    /\ create_mission_profile("MX", "Recon", "reconnaissance")
    /\ Bounded(CpMaxNodes, CpMaxEdges)

CpAddModuleToMission ==
    \E m \in CpModuleIds :
        /\ add_module_to_mission(m, "MX")
        /\ Bounded(CpMaxNodes, CpMaxEdges)

CpMarkCompatible ==
    \E a, b \in CpModuleIds :
        /\ a # b
        /\ mark_compatible(a, b)
        /\ Bounded(CpMaxNodes, CpMaxEdges)

CpMarkConflict ==
    \E a, b \in CpModuleIds :
        /\ a # b
        /\ mark_conflict(a, b, "emi")
        /\ Bounded(CpMaxNodes, CpMaxEdges)

CpCompatibility == get_mission_compatibility("MX")

NextCompat ==
    \/ CpCreateModule
    \/ CpCreateMission
    \/ CpAddModuleToMission
    \/ CpMarkCompatible
    \/ CpMarkConflict
    \/ CpCompatibility

SpecCompat == Init /\ [][NextCompat]_vars

(***************************************************************************)
(* Properties of get_mission_compatibility.                                *)
(***************************************************************************)
IsCompatCall == last.op = "get_mission_compatibility"

(* The module nodes with at least one PART_OF_MISSION edge to a mission    *)
(* node of the given id.                                                   *)
ModulesOfMission(mission_id) ==
    {i \in 1..Len(nodes) :
        /\ nodes[i].label = UGV_MODULE
        /\ \E e \in BagToSet(edges) :
              /\ e.type = PART_OF_MISSION
              /\ e.src = i
              /\ nodes[e.dst].label = MISSION_PROFILE
              /\ nodes[e.dst].bid = mission_id}

(* C4: for a mission with N distinct linked modules the analysis returns   *)
(* N*(N-1)/2 rows, no pair in more than one row and no module paired with  *)
(* itself (stated here for the graphs in which every business id is        *)
(* unique, so that a row's two module ids name its pair).                  *)
C4_PairsExactlyOnce ==
    (IsCompatCall /\ BusinessIdsUnique) =>
        LET n == Cardinality(ModulesOfMission(last.args.mission_id))
            rows == last.ret.conflicts (+) last.ret.compatible_confirmed
        IN  /\ 2 * last.ret.total_pairs = n * (n - 1)
            /\ \A r \in DOMAIN rows : rows[r] = 1 /\ r.module_1 # r.module_2
            /\ \A r, q \in DOMAIN rows :
                  (r.module_1 = q.module_1 /\ r.module_2 = q.module_2) => r = q

RlMaxNodes == 3
RlMaxEdges == 2

RlIds == {"id_1", "id_2"}

RlCreateModule ==
    \E id \in RlIds :
        /\ create_module(id, "Sensing_Module", 2, FALSE, NullNum, FALSE, 0)
        /\ Bounded(RlMaxNodes, RlMaxEdges)

RlCreateBaseChassis ==
    /\ create_base_chassis("id_1", 25)
    /\ Bounded(RlMaxNodes, RlMaxEdges)

RlCreateMission ==
    /\ create_mission_profile("id_1", "Recon", "reconnaissance")
    /\ Bounded(RlMaxNodes, RlMaxEdges)

RlCreateConstraint ==
    /\ create_constraint("id_1", "power_budget")
    /\ Bounded(RlMaxNodes, RlMaxEdges)

RlMount ==
    \E m, c \in RlIds :
        /\ mount_module_on_chassis(m, c, "front_mast", <<0, 15, 30>>)
        /\ Bounded(RlMaxNodes, RlMaxEdges)

RlAddModuleToMission ==
    \E m, x \in RlIds :
        /\ add_module_to_mission(m, x)
        /\ Bounded(RlMaxNodes, RlMaxEdges)

RlAddConstraintToModule ==
    \E m, k \in RlIds :
        /\ add_constraint_to_module(m, k)
        /\ Bounded(RlMaxNodes, RlMaxEdges)

RlMarkCompatible ==
    \E a, b \in RlIds :
        /\ mark_compatible(a, b)
        /\ Bounded(RlMaxNodes, RlMaxEdges)

RlMarkConflict ==
    \E a, b \in RlIds :
        /\ mark_conflict(a, b, "emi")
        /\ Bounded(RlMaxNodes, RlMaxEdges)

NextRel ==
    \/ RlCreateModule
    \/ RlCreateBaseChassis
    \/ RlCreateMission
    \/ RlCreateConstraint
    \/ RlMount
    \/ RlAddModuleToMission
    \/ RlAddConstraintToModule
    \/ RlMarkCompatible
    \/ RlMarkConflict

SpecRel == Init /\ [][NextRel]_vars

(***************************************************************************)
(* Properties of the relationship operations.                              *)
(***************************************************************************)
RelOps ==
    {"mount_module_on_chassis", "add_module_to_mission", "add_constraint_to_module",
     "mark_compatible", "mark_conflict"}

(* The edge type and the kinds of node each operation is documented to     *)
(* join: first-named node, second-named node.                              *)
RelTypeOf(op) ==
    CASE op = "mount_module_on_chassis" -> MOUNTED_ON
      [] op = "add_module_to_mission" -> PART_OF_MISSION
      [] op = "add_constraint_to_module" -> CONSTRAINED_BY
      [] op = "mark_compatible" -> COMPATIBLE_WITH
      [] op = "mark_conflict" -> CONFLICTS_WITH

RelSecondLabel(op) ==
    CASE op = "mount_module_on_chassis" -> BASE_CHASSIS
      [] op = "add_module_to_mission" -> MISSION_PROFILE
      [] op = "add_constraint_to_module" -> CONSTRAINT
      [] op = "mark_compatible" -> UGV_MODULE
      [] op = "mark_conflict" -> UGV_MODULE

NodeExists(label, bid) ==
    \E i \in 1..Len(nodes) : nodes[i].label = label /\ nodes[i].bid = bid

(* C7: when either endpoint id matches no node of the required type, the   *)
(* call returns false without raising and leaves nodes and edges as they   *)
(* were.                                                                   *)
C7_MissingEndpointReturnsFalse ==
    [][(/\ last'.op \in RelOps
        /\ \/ ~NodeExists(UGV_MODULE, last'.args.a)
           \/ ~NodeExists(RelSecondLabel(last'.op), last'.args.b))
       => (/\ last'.ret = FALSE
           /\ ~last'.raised
           /\ nodes' = nodes
           /\ edges' = edges)]_vars

C7_Witness ==
    /\ last.op = "add_module_to_mission"
    /\ NodeExists(UGV_MODULE, last.args.a)
    /\ ~NodeExists(MISSION_PROFILE, last.args.b)
    /\ \E i \in 1..Len(nodes) : nodes[i].bid = last.args.b
    /\ last.ret = FALSE
    /\ edges # EmptyBag

(* The ids for which setup_schema declares a uniqueness constraint are     *)
(* unique in the graph.                                                    *)
DeclaredIdsUnique ==
    \A i, j \in 1..Len(nodes) :
        (/\ nodes[i].label \in {UGV_MODULE, INTERFACE_SPEC, MISSION_PROFILE, BASE_CHASSIS}
         /\ nodes[i].label = nodes[j].label
         /\ nodes[i].bid = nodes[j].bid) => i = j

(* C8: a relationship operation that returns true adds exactly one edge of *)
(* its type, from the first-named node to the second-named node, with the  *)
(* given properties, and changes nothing else (stated here for the graphs  *)
(* in which the ids setup_schema constrains are unique).                   *)
C8_ExactlyOneEdgePerCall ==
    [][(DeclaredIdsUnique /\ last'.op \in RelOps /\ last'.ret = TRUE)
       => (/\ nodes' = nodes
           /\ \E e \in BagToSet(edges') :
                 /\ e.type = RelTypeOf(last'.op)
                 /\ nodes[e.src].label = UGV_MODULE
                 /\ nodes[e.src].bid = last'.args.a
                 /\ nodes[e.dst].label = RelSecondLabel(last'.op)
                 /\ nodes[e.dst].bid = last'.args.b
                 /\ e.slot = last'.args.slot
                 /\ e.pos = last'.args.pos
                 /\ e.reason = last'.args.reason
                 /\ edges' = edges (+) SetToBag({e}))]_vars

(* C10: every UGV_Module node has at most one outgoing MOUNTED_ON edge     *)
(* (stated here for the graphs in which every business id is unique).      *)
C10_AtMostOneMount ==
    \A i \in 1..Len(nodes) :
        (BusinessIdsUnique /\ nodes[i].label = UGV_MODULE) =>
            LET es == {e \in BagToSet(edges) : e.type = MOUNTED_ON /\ e.src = i}
            IN  SumOver(es, [e \in es |-> CopiesIn(e, edges)]) <= 1

(***************************************************************************)
(* SpecManifest: a mission, modules, constraints, their links and the      *)
(* mission manifest.                                                       *)
(***************************************************************************)
MfMaxNodes == 4
MfMaxEdges == 3

MfModules == {<<"M1", NullNum>>, <<"M2", 120>>}
MfModuleIds == {"M1", "M2"}
MfQueryIds == {"MX", "MY"}

MfCreateModule ==
    \E m \in MfModules :
        /\ create_module(m[1], "Sensing_Module", 2, FALSE, m[2], FALSE, 0)
        /\ Bounded(MfMaxNodes, MfMaxEdges)

MfCreateMission ==
    /\ create_mission_profile("MX", "Recon", "reconnaissance")
    /\ Bounded(MfMaxNodes, MfMaxEdges)

MfCreateConstraint ==
    /\ create_constraint("K1", "power_budget")
    /\ Bounded(MfMaxNodes, MfMaxEdges)

MfAddModuleToMission ==
    \E m \in MfModuleIds :
        /\ add_module_to_mission(m, "MX")
        /\ Bounded(MfMaxNodes, MfMaxEdges)

MfAddConstraintToModule ==
    \E m \in MfModuleIds :
        /\ add_constraint_to_module(m, "K1")
        /\ Bounded(MfMaxNodes, MfMaxEdges)

MfManifest == \E x \in MfQueryIds : get_mission_manifest(x)

NextManifest ==
    \/ MfCreateModule
    \/ MfCreateMission
    \/ MfCreateConstraint
    \/ MfAddModuleToMission
    \/ MfAddConstraintToModule
    \/ MfManifest

SpecManifest == Init /\ [][NextManifest]_vars

(* C6: for an existing mission without linked module the manifest is a     *)
(* normal result with num_modules = 0, no modules and zero totals.         *)
C6_EmptyMissionManifest ==
    (/\ last.op = "get_mission_manifest"
     /\ NodeExists(MISSION_PROFILE, last.args.mission_id)
     /\ ~HasLinkedModule(last.args.mission_id))
    => (/\ "status" \notin DOMAIN last.ret
        /\ last.ret.num_modules = 0
        /\ last.ret.modules = EmptyBag
        /\ last.ret.total_mass_kg = 0
        /\ last.ret.total_power_w = 0
        /\ last.ret.total_power_kw.num = 0)

(***************************************************************************)
(* SpecCreate: setup_schema and the five node construction operations,     *)
(* with an empty and a non-empty id.                                       *)
(***************************************************************************)
CrMaxNodes == 2
CrMaxEdges == 1

CrIds == {"", "M1"}
CrInterfaceIds == {"", "M1_electrical"}
CrPowers == {NullNum, 120}
CrRejects ==
    {{}, {"interface_id_unique"}, {"module_id_unique", "module_type"}, StatementNames}

CrSetupSchema == \E engine_rejects \in CrRejects : setup_schema(engine_rejects)

CrCreateInterfaceSpec ==
    \E id \in CrInterfaceIds :
        /\ create_interface_spec(id, "electrical", 120)
        /\ Bounded(CrMaxNodes, CrMaxEdges)

CrCreateModule ==
    \E id \in CrIds, elec \in CrPowers :
        /\ create_module(id, "Sensing_Module", 2, FALSE, elec, FALSE, 0)
        /\ Bounded(CrMaxNodes, CrMaxEdges)

CrCreateBaseChassis ==
    \E id \in CrIds :
        /\ create_base_chassis(id, 25)
        /\ Bounded(CrMaxNodes, CrMaxEdges)

CrCreateMission ==
    \E id \in CrIds :
        /\ create_mission_profile(id, "Recon", "reconnaissance")
        /\ Bounded(CrMaxNodes, CrMaxEdges)

CrCreateConstraint ==
    \E id \in CrIds :
        /\ create_constraint(id, "power_budget")
        /\ Bounded(CrMaxNodes, CrMaxEdges)

NextCreate ==
    \/ CrSetupSchema
    \/ CrCreateInterfaceSpec
    \/ CrCreateModule
    \/ CrCreateBaseChassis
    \/ CrCreateMission
    \/ CrCreateConstraint

SpecCreate == Init /\ [][NextCreate]_vars

CreateOps ==
    {"create_interface_spec", "create_module", "create_base_chassis",
     "create_mission_profile", "create_constraint"}

(* C9: a node construction operation called with an empty identifying     *)
(* field fails before any statement is sent: it raises, and the graph      *)
(* holds no node with an empty id.                                         *)
C9_EmptyIdRejected ==
    (last.op \in CreateOps /\ last.args.id = "") =>
        /\ last.raised
        /\ \A i \in 1..Len(nodes) : nodes[i].bid # ""

(* C11: once setup_schema has run with every statement accepted, no node   *)
(* construction call makes two nodes of one type share a business id:      *)
(* module_id, interface_id, mission_id, chassis_id and constraint_id each   *)
(* stay unique within their node type.                                     *)
C11_IdsUniqueAfterSetup ==
    [][(/\ uniq = {UGV_MODULE, INTERFACE_SPEC, MISSION_PROFILE, BASE_CHASSIS}
        /\ BusinessIdsUnique
        /\ last'.op \in CreateOps)
       => BusinessIdsUnique']_vars

(***************************************************************************)
(* SpecDeps: modules with and without electrical interface, chassis, a     *)
(* mission, mounting, membership, conflict and compatibility marks, and    *)
(* the two look-ups that answer not_found: find_module_dependencies and    *)
(* get_mission_manifest.  A chassis may carry the id of a module.          *)
(***************************************************************************)
DpMaxNodes == 4
DpMaxEdges == 3

DpModules == {<<"M1", "Optical_Module", 120>>, <<"M1", "Accessory_Module", NullNum>>,
              <<"M2", "Accessory_Module", NullNum>>}
DpChassisIds == {"C1", "M1"}

DpCreateModule ==
    \E m \in DpModules :
        /\ create_module(m[1], m[2], 2, FALSE, m[3], FALSE, 0)
        /\ Bounded(DpMaxNodes, DpMaxEdges)

DpCreateBaseChassis ==
    \E c \in DpChassisIds :
        /\ create_base_chassis(c, 25)
        /\ Bounded(DpMaxNodes, DpMaxEdges)

DpCreateMission ==
    /\ create_mission_profile("MX", "Recon", "reconnaissance")
    /\ Bounded(DpMaxNodes, DpMaxEdges)

DpMount ==
    \E c \in DpChassisIds :
        /\ mount_module_on_chassis("M1", c, "front_mast", <<0, 15, 30>>)
        /\ Bounded(DpMaxNodes, DpMaxEdges)

DpAddModuleToMission ==
    /\ add_module_to_mission("M1", "MX")
    /\ Bounded(DpMaxNodes, DpMaxEdges)

DpMarkCompatible ==
    /\ mark_compatible("M1", "M2")
    /\ Bounded(DpMaxNodes, DpMaxEdges)

DpMarkConflict ==
    /\ mark_conflict("M1", "M2", "emi")
    /\ Bounded(DpMaxNodes, DpMaxEdges)

DpFindDependencies == find_module_dependencies("M1")

DpManifest == get_mission_manifest("MX")

NextDeps ==
    \/ DpCreateModule
    \/ DpCreateBaseChassis
    \/ DpCreateMission
    \/ DpMount
    \/ DpAddModuleToMission
    \/ DpMarkCompatible
    \/ DpMarkConflict
    \/ DpFindDependencies
    \/ DpManifest

SpecDeps == Init /\ [][NextDeps]_vars

(***************************************************************************)
(* Properties of find_module_dependencies.                                 *)
(***************************************************************************)
IsDepsCall == last.op = "find_module_dependencies"

(* The MOUNTED_ON edges that leave a module node of the given id.          *)
MountEdgesOf(module_id) ==
    {e \in BagToSet(edges) :
        /\ e.type = MOUNTED_ON
        /\ nodes[e.src].label = UGV_MODULE
        /\ nodes[e.src].bid = module_id}

(* The module of the given id stands as mount_module_on_chassis(module_id, *)
(* chassis_id, ...) returning true leaves a module that had no mount: each *)
(* of its nodes has a MOUNTED_ON edge, and each such edge ends in a        *)
(* Base_Chassis node of the given id.                                      *)
MountedOnly(module_id, chassis_id) ==
    /\ \A i \in 1..Len(nodes) :
          (nodes[i].label = UGV_MODULE /\ nodes[i].bid = module_id)
              => \E e \in MountEdgesOf(module_id) : e.src = i
    /\ \A e \in MountEdgesOf(module_id) :
          nodes[e.dst].label = BASE_CHASSIS /\ nodes[e.dst].bid = chassis_id

(* C12: find_module_dependencies reports mounted_on as null for a module   *)
(* without MOUNTED_ON edge, and as the chassis id c for a module mounted   *)
(* on c by a mount_module_on_chassis that returned true, whatever          *)
(* missions, interfaces, conflict and compatibility edges the module has.  *)
C12_MountedOnReported ==
    (IsDepsCall /\ NodeExists(UGV_MODULE, last.args.module_id)) =>
        /\ "mounted_on" \in DOMAIN last.ret
        /\ MountEdgesOf(last.args.module_id) = {} => last.ret.mounted_on = Null
        /\ \A i \in 1..Len(nodes) :
              (nodes[i].label = BASE_CHASSIS
                  /\ MountedOnly(last.args.module_id, nodes[i].bid))
                  => last.ret.mounted_on = nodes[i].bid

C12_Witness ==
    /\ IsDepsCall
    /\ "mounted_on" \in DOMAIN last.ret
    /\ last.ret.mounted_on = "C1"
    /\ MountedOnly(last.args.module_id, "C1")
    /\ last.ret.interfaces # {}
    /\ last.ret.missions # {}

(* C13: find_module_dependencies on a created module returns the module    *)
(* type, the power draw (the electrical interface's power_draw_w, zero     *)
(* for a module without electrical interface) and the description that     *)
(* create_module was given (stated here for the graphs in which every      *)
(* business id is unique, so that the id names one module).                *)
C13_CreateThenFindRoundTrip ==
    (IsDepsCall /\ BusinessIdsUnique) =>
        \A i \in 1..Len(nodes) :
            (nodes[i].label = UGV_MODULE /\ nodes[i].bid = last.args.module_id) =>
                /\ last.ret.module_type = nodes[i].type
                /\ last.ret.power_w = (IF nodes[i].power = NullNum THEN 0
                                        ELSE nodes[i].power)
                /\ "description" \in DOMAIN last.ret

(***************************************************************************)
(* Properties of get_mission_compatibility for marked pairs.               *)
(***************************************************************************)
(* The number of edges of the given type from node a to node b.            *)
MarkCount(type, a, b) ==
    LET es == {e \in BagToSet(edges) : e.type = type /\ e.src = a /\ e.dst = b}
    IN  SumOver(es, [e \in es |-> CopiesIn(e, edges)])

(* Node i is linked to the mission of the given id by exactly one          *)
(* PART_OF_MISSION edge.                                                   *)
LinkedOnce(i, mission_id) ==
    LET es == {e \in BagToSet(edges) :
                  /\ e.type = PART_OF_MISSION
                  /\ e.src = i
                  /\ nodes[e.dst].label = MISSION_PROFILE
                  /\ nodes[e.dst].bid = mission_id}
    IN  SumOver(es, [e \in es |-> CopiesIn(e, edges)]) = 1

(* The rows of a bag of result rows that name the two modules, in either   *)
(* order.                                                                  *)
RowsOfPair(rows, a, b) ==
    LET rs == {r \in DOMAIN rows :
                  \/ r.module_1 = nodes[a].bid /\ r.module_2 = nodes[b].bid
                  \/ r.module_1 = nodes[b].bid /\ r.module_2 = nodes[a].bid}
    IN  SumOver(rs, [r \in rs |-> rows[r]])

(* C14: two modules of a mission marked once with mark_compatible(a, b)    *)
(* and once with mark_conflict(a, b, reason) come back in exactly one row, *)
(* classified CONFLICT: not under compatible_confirmed, and not as UNKNOWN *)
(* (stated here for unique business ids and modules linked to the mission  *)
(* once; with the two as the mission's only modules the result has one     *)
(* pair and no unknown).                                                   *)
C14_ConflictTakesPrecedence ==
    (IsCompatCall /\ BusinessIdsUnique) =>
        \A a, b \in ModulesOfMission(last.args.mission_id) :
            (/\ a # b
             /\ LinkedOnce(a, last.args.mission_id)
             /\ LinkedOnce(b, last.args.mission_id)
             /\ MarkCount(COMPATIBLE_WITH, a, b) = 1
             /\ MarkCount(CONFLICTS_WITH, a, b) = 1
             /\ MarkCount(COMPATIBLE_WITH, b, a) = 0
             /\ MarkCount(CONFLICTS_WITH, b, a) = 0)
            => (/\ RowsOfPair(last.ret.conflicts, a, b) = 1
                /\ RowsOfPair(last.ret.compatible_confirmed, a, b) = 0
                /\ ModulesOfMission(last.args.mission_id) = {a, b}
                       => (last.ret.unknown = 0 /\ last.ret.total_pairs = 1))

C16_SetupSubmitsAllStatements ==
    last.op = "setup_schema" =>
        /\ last.args.submitted =
               <<"module_id_unique", "interface_id_unique", "mission_id_unique",
                 "chassis_id_unique", "module_type", "module_status", "mission_type",
                 "power_draw">>
        /\ ~last.raised

C16_Witness ==
    /\ last.op = "setup_schema"
    /\ {"module_id_unique", "module_type"} \subseteq last.args.rejected
    /\ ~CanConstrain(UGV_MODULE)
    /\ INTERFACE_SPEC \in uniq
    /\ Len(last.args.submitted) = 8
    /\ ~last.raised

(***************************************************************************)
(* SpecModule: setup_schema, create_interface_spec and create_module with  *)
(* every choice of interfaces, on an engine that may fail any one          *)
(* statement of a create_module call.                                      *)
(***************************************************************************)
MdMaxNodes == 4
MdMaxEdges == 3

MdElec == {NullNum, 120}
MdFaults == 0..7

MdSetupSchema == setup_schema({})

MdCreateInterfaceSpec ==
    /\ create_interface_spec("M1_electrical", "electrical", 120)
    /\ Bounded(MdMaxNodes, MdMaxEdges)

MdCreateModule ==
    \E mech \in BOOLEAN, elec \in MdElec, therm \in BOOLEAN, fault \in MdFaults :
        /\ create_module("M1", "Optical_Module", 2, mech, elec, therm, fault)
        /\ Bounded(MdMaxNodes, MdMaxEdges)

NextModule == MdSetupSchema \/ MdCreateInterfaceSpec \/ MdCreateModule

SpecModule == Init /\ [][NextModule]_vars

(***************************************************************************)
(* Properties of create_module under failure.                              *)
(***************************************************************************)
(* The number of statements a create_module call with these interfaces     *)
(* sends when none fails: one for the module, two for each interface.      *)
StatementsOf(args) ==
    1 + 2 * ((IF args.mech THEN 1 ELSE 0) + (IF args.elec # NullNum THEN 1 ELSE 0)
                + (IF args.therm THEN 1 ELSE 0))

(* Among the first k statements of a create_module call: the node          *)
(* creations and the edge creations.                                       *)
NodesAmong(k) == IF k = 0 THEN 0 ELSE 1 + (k \div 2)

EdgesAmong(k) == IF k = 0 THEN 0 ELSE (k - 1) \div 2

(* C17: create_module has no rollback: when a statement fails partway, the *)
(* error reaches the caller, and the UGV_Module node with every            *)
(* Interface_Spec node and HAS_INTERFACE edge created before the failure   *)
(* stays in the graph, on top of the graph as it was.  With no uniqueness  *)
(* constraint in force the call raises exactly when the engine fails one   *)
(* of its statements, and what stays is what the statements before that    *)
(* one created.                                                            *)
C17_NoRollbackOnPartialFailure ==
    [][(last'.op = "create_module" /\ last'.raised) =>
          LET n == Len(nodes)
              added == edges' (-) edges
          IN  /\ Len(nodes') >= n
              /\ SubSeq(nodes', 1, n) = nodes
              /\ edges \sqsubseteq edges'
              /\ Len(nodes') > n =>
                     /\ nodes'[n + 1].label = UGV_MODULE
                     /\ nodes'[n + 1].bid = last'.args.id
                     /\ \A i \in (n + 2)..Len(nodes') : nodes'[i].label = INTERFACE_SPEC
              /\ \A e \in BagToSet(added) :
                     /\ e.type = HAS_INTERFACE
                     /\ e.src = n + 1
                     /\ e.dst \in (n + 2)..Len(nodes')
                     /\ added[e] = 1
              /\ uniq = {} =>
                     /\ last'.args.fault \in 1..StatementsOf(last'.args)
                     /\ Len(nodes') = n + NodesAmong(last'.args.fault - 1)
                     /\ BagCardinality(added) = EdgesAmong(last'.args.fault - 1)]_vars

C17_Witness ==
    /\ last.op = "create_module"
    /\ last.raised
    /\ last.args.fault = 5
    /\ Len(nodes) = 3
    /\ nodes[1].label = UGV_MODULE
    /\ BagCardinality(edges) = 1

(* C19: for two distinct modules a and b of a mission, once                *)
(* mark_conflict(a, b, reason) has returned true the analysis of the       *)
(* mission classifies the pair as CONFLICT and reports mission_viable =    *)
(* false, whichever of the two was named first and whichever has the       *)
(* smaller internal node id (stated here for unique business ids).         *)
C19_ConflictReadSymmetrically ==
    (IsCompatCall /\ BusinessIdsUnique) =>
        \A a, b \in ModulesOfMission(last.args.mission_id) :
            (a # b /\ MarkCount(CONFLICTS_WITH, a, b) >= 1)
            => (/\ RowsOfPair(last.ret.conflicts, a, b) >= 1
                /\ \A r \in DOMAIN last.ret.conflicts : r.relationship = "CONFLICT"
                /\ ~last.ret.mission_viable)

(***************************************************************************)
(* populate_knowledge_graph: one chassis, three modules, two missions,     *)
(* three mounts, four mission memberships, three compatibility marks,      *)
(* three constraints and eight constraint links, in this order.  Masses    *)
(* are in units of 0.1 kg, positions in cm, power in W.                    *)
(*                                                                         *)
(* The function keeps what create_mission_profile and create_constraint    *)
(* return, the internal id of the node created, and passes it on as the    *)
(* mission_id of add_module_to_mission and as the constraint_id of         *)
(* add_constraint_to_module.  There the statement compares it with the     *)
(* mission_id / constraint_id property, a string; an integer equals no     *)
(* string.  NodeIdParam writes the integer n as a value that differs from  *)
(* every string id.                                                        *)
(***************************************************************************)
NodeIdParam(n) ==
    <<"#1", "#2", "#3", "#4", "#5", "#6", "#7", "#8", "#9", "#10", "#11", "#12",
      "#13", "#14", "#15", "#16", "#17", "#18", "#19", "#20">>[n]

(* The value a create call of the function returned: the internal id of    *)
(* the node it created (0 before the call).                                *)
ReturnedId(label, bid) ==
    IF MatchNodes(label, bid) = {} THEN 0
    ELSE CHOOSE i \in MatchNodes(label, bid) : TRUE

NodeIdArg(label, bid) ==
    IF ReturnedId(label, bid) = 0 THEN Null ELSE NodeIdParam(ReturnedId(label, bid))

recon_mission_id == NodeIdArg(MISSION_PROFILE, "mission_recon_001")
eod_mission_id == NodeIdArg(MISSION_PROFILE, "mission_eod_001")
power_constraint_id == NodeIdArg(CONSTRAINT, "constraint_power_limit")
thermal_constraint_id == NodeIdArg(CONSTRAINT, "constraint_thermal_limit")
freq_constraint_id == NodeIdArg(CONSTRAINT, "constraint_freq_min")

PopCreate(op, id, x) == [op |-> op, a |-> id, b |-> Null, x |-> x]

PopRel(op, a, b, x) == [op |-> op, a |-> a, b |-> b, x |-> x]

PopulateCalls ==
    <<PopCreate("create_base_chassis", "chassis_001", [mass |-> 250]),
      PopCreate("create_module", "module_optical_cam_001",
                [type |-> "Optical_Module", mass |-> 25, mech |-> TRUE, elec |-> 120,
                 therm |-> TRUE]),
      PopCreate("create_module", "module_arm_eod_001",
                [type |-> "Manipulation_Module", mass |-> 180, mech |-> TRUE,
                 elec |-> 600, therm |-> TRUE]),
      PopCreate("create_module", "module_battery_extended_001",
                [type |-> "Accessory_Module", mass |-> 120, mech |-> FALSE, elec |-> 0,
                 therm |-> TRUE]),
      PopCreate("create_mission_profile", "mission_recon_001",
                [name |-> "Urban Reconnaissance", type |-> "reconnaissance"]),
      PopCreate("create_mission_profile", "mission_eod_001",
                [name |-> "EOD Disposal", type |-> "eod"]),
      PopRel("mount_module_on_chassis", "module_optical_cam_001", "chassis_001",
             [slot |-> "front_mast", pos |-> <<0, 15, 30>>]),
      PopRel("mount_module_on_chassis", "module_arm_eod_001", "chassis_001",
             [slot |-> "rear_aft", pos |-> <<40, 0, 10>>]),
      PopRel("mount_module_on_chassis", "module_battery_extended_001", "chassis_001",
             [slot |-> "center_belly", pos |-> <<20, 0, 0 - 5>>]),
      PopRel("add_module_to_mission", "module_optical_cam_001", recon_mission_id, Null),
      PopRel("add_module_to_mission", "module_battery_extended_001", recon_mission_id,
             Null),
      PopRel("add_module_to_mission", "module_arm_eod_001", eod_mission_id, Null),
      PopRel("add_module_to_mission", "module_battery_extended_001", eod_mission_id, Null),
      PopRel("mark_compatible", "module_optical_cam_001", "module_arm_eod_001", Null),
      PopRel("mark_compatible", "module_optical_cam_001", "module_battery_extended_001",
             Null),
      PopRel("mark_compatible", "module_arm_eod_001", "module_battery_extended_001", Null),
      PopCreate("create_constraint", "constraint_power_limit", [type |-> "power_budget"]),
      PopCreate("create_constraint", "constraint_thermal_limit",
                [type |-> "thermal_budget"]),
      PopCreate("create_constraint", "constraint_freq_min",
                [type |-> "natural_frequency"]),
      PopRel("add_constraint_to_module", "module_optical_cam_001", power_constraint_id,
             Null),
      PopRel("add_constraint_to_module", "module_optical_cam_001", thermal_constraint_id,
             Null),
      PopRel("add_constraint_to_module", "module_optical_cam_001", freq_constraint_id,
             Null),
      PopRel("add_constraint_to_module", "module_arm_eod_001", power_constraint_id, Null),
      PopRel("add_constraint_to_module", "module_arm_eod_001", thermal_constraint_id,
             Null),
      PopRel("add_constraint_to_module", "module_arm_eod_001", freq_constraint_id, Null),
      PopRel("add_constraint_to_module", "module_battery_extended_001",
             power_constraint_id, Null),
      PopRel("add_constraint_to_module", "module_battery_extended_001",
             thermal_constraint_id, Null)>>

(* One call of the function.                                               *)
PopulateCall(c) ==
    \/ c.op = "create_base_chassis" /\ create_base_chassis(c.a, c.x.mass)
    \/ /\ c.op = "create_module"
       /\ create_module(c.a, c.x.type, c.x.mass, c.x.mech, c.x.elec, c.x.therm, 0)
    \/ /\ c.op = "create_mission_profile"
       /\ create_mission_profile(c.a, c.x.name, c.x.type)
    \/ c.op = "create_constraint" /\ create_constraint(c.a, c.x.type)
    \/ /\ c.op = "mount_module_on_chassis"
       /\ mount_module_on_chassis(c.a, c.b, c.x.slot, c.x.pos)
    \/ c.op = "add_module_to_mission" /\ add_module_to_mission(c.a, c.b)
    \/ c.op = "add_constraint_to_module" /\ add_constraint_to_module(c.a, c.b)
    \/ c.op = "mark_compatible" /\ mark_compatible(c.a, c.b)

(* The function makes no two calls alike, so the call made last tells how  *)
(* far it has come: the number of calls made, 0 before the first.          *)
IsLastCall(c) ==
    /\ last.op = c.op
    /\ IF c.b = Null THEN last.args.id = c.a
       ELSE last.args.a = c.a /\ last.args.b = c.b

PopulatePosition ==
    IF \E k \in 1..Len(PopulateCalls) : IsLastCall(PopulateCalls[k])
    THEN CHOOSE k \in 1..Len(PopulateCalls) : IsLastCall(PopulateCalls[k])
    ELSE 0

(* The next call of populate_knowledge_graph; a call that raises ends it.  *)
populate_knowledge_graph ==
    /\ last.op \in {"none", "setup_schema"} \/ PopulatePosition > 0
    /\ ~last.raised
    /\ PopulatePosition < Len(PopulateCalls)
    /\ PopulateCall(PopulateCalls[PopulatePosition + 1])

(***************************************************************************)
(* SpecPopulate: the main program on an empty graph: setup_schema (or      *)
(* not), populate_knowledge_graph, then the power-budget validation of the *)
(* two missions with the budget of run_example_queries, 3.5 kW.            *)
(***************************************************************************)
PpRejects ==
    {{}, {"interface_id_unique"}, {"module_id_unique", "module_type"}, StatementNames}
PpMissionIds == {"mission_recon_001", "mission_eod_001"}

PpSetupSchema ==
    /\ last = NoCall
    /\ \E engine_rejects \in PpRejects : setup_schema(engine_rejects)

PpPopulate == populate_knowledge_graph

PpValidate ==
    /\ \/ PopulatePosition = Len(PopulateCalls)
       \/ last.op = "validate_mission_power_budget"
    /\ \E x \in PpMissionIds : validate_mission_power_budget(x, Frac(35, 10))

NextPopulate == PpSetupSchema \/ PpPopulate \/ PpValidate

SpecPopulate == Init /\ [][NextPopulate]_vars

(* The ids of the module nodes linked to a mission of the given id.        *)
LinkedModuleIds(mission_id) ==
    {nodes[i].bid : i \in ModulesOfMission(mission_id)}

(* populate_knowledge_graph has made its last call.                        *)
PopulateDone ==
    \/ /\ last.op = "add_constraint_to_module"
       /\ last.args.a = "module_battery_extended_001"
       /\ \E i \in 1..Len(nodes) :
             /\ nodes[i].label = CONSTRAINT
             /\ nodes[i].bid = "constraint_thermal_limit"
             /\ last.args.b \in {nodes[i].bid, NodeIdParam(i)}
    \/ last.op = "validate_mission_power_budget"

(* C18: in a run of populate_knowledge_graph on an empty graph every       *)
(* add_module_to_mission and add_constraint_to_module call returns true;   *)
(* afterwards mission_recon_001 has exactly the optical camera and the     *)
(* battery linked, mission_eod_001 exactly the arm and the battery, and    *)
(* validate_mission_power_budget on either mission returns totals, not the *)
(* invalid result.                                                         *)
C18_PopulateLinksModules ==
    /\ last.op \in {"add_module_to_mission", "add_constraint_to_module"}
           => last.ret = TRUE
    /\ PopulateDone =>
           /\ LinkedModuleIds("mission_recon_001")
                  = {"module_optical_cam_001", "module_battery_extended_001"}
           /\ LinkedModuleIds("mission_eod_001")
                  = {"module_arm_eod_001", "module_battery_extended_001"}
    /\ last.op = "validate_mission_power_budget"
           => "total_power_w" \in DOMAIN last.ret

====
